---- MODULE Spec2Model ----
(***************************************************************************)
(* Model of BuildEnvSetupCeConanDirect (src/lib/buildenvsetup/ceconan.ts): *)
(* the package matcher (findMatchingHash), the archive extractor           *)
(* (downloadAndExtractPackage) and the orchestrator (setup / download).    *)
(***************************************************************************)
EXTENDS Integers, Sequences, FiniteSets, TLC

\* ------------------------------------------------------------------ bounds
\* longest candidate mapping handed to findMatchingHash on its own
MaxBuilds == 2
\* number of libraries in libraryDetails
MaxLibs == 2
\* number of entries of an archive
MaxEntries == 2
\* concurrent calls of execute on one RemoteExecutionEnvironment
MaxCalls == 2

\* ------------------------------------------------------------------ state
VARIABLES
    \* findMatchingHash called on its own (MatchSpec)
    fmProps,        \* buildProperties argument
    fmBuilds,       \* possibleBuilds argument, in the mapping's iteration order
    fmHash,         \* value the returned promise settles with
    fmPc,           \* "args" while the arguments are built, "done" after the call
    \* setup / download (Spec)
    host,                   \* this.host is truthy
    onlyonstaticliblink,    \* this.onlyonstaticliblink
    binary,                 \* the binary argument of setup
    libraryDetails,         \* the libraryDetails argument, in iteration order
    pc,                     \* "idle", "loop" (in the for loop), "joined"
                            \* (Promise.all called), "done" (returned or threw)
    allLibraryBuilds,       \* indexes of the libraries download() retained
    idx,                    \* position of the for loop in allLibraryBuilds
    libState,               \* per library: its possibleBuilds promise, then
                            \* what the loop did with it
    allDownloads,           \* the promises pushed to allDownloads
    callState,              \* the promise setup returned
    callValue,              \* what it settled with
    requests,               \* the fetches issued: <<endpoint, library>>
    listingQueries,         \* the calls of getAllPossibleBuilds, in call order
    dirWrites,              \* libraries whose archive may have written into dirPath
    \* downloadAndExtractPackage of one archive (ExtractSpec)
    extractAllToRoot,       \* this.extractAllToRoot
    log,                    \* the entries emitted so far and what became of them
    files,                  \* paths fs.createWriteStream was called with
    dirs,                   \* directories mkdirp made sure exist
    xPromise,               \* the promise downloadAndExtractPackage returned
    xError,                 \* what it rejected with
    ePc,                    \* "ready" (between entries), "mkdirp", "piping",
                            \* "stalled" (next will not be called), "finished"
    nextCalls,              \* number of calls of next
    nonEmpty,               \* paths of the files that hold bytes
    lostErrors,             \* failures that were raised and reached no reject
    \* RemoteExecutionEnvironment.execute, per call (ExecSpec)
    execPc,                 \* "idle", the await the call stands at ("subscribe",
                            \* "push", "data", "close"), "returned", "threw"
    subscribed,             \* waiter.subscribe(guid) of the call has completed
    inbox,                  \* the results the call's waiter has received
    closeCalls,             \* number of calls of waiter.close()
    raised,                 \* the await that failed, "none" if none did
    thrown,                 \* what execute threw
    result,                 \* const result (0: not assigned)
    execQueue,              \* the calls whose request is in the queue
    published               \* the requests whose result was published

varsM == <<fmProps, fmBuilds, fmHash, fmPc>>
varsO == <<host, onlyonstaticliblink, binary, libraryDetails, pc, allLibraryBuilds,
           idx, libState, allDownloads, callState, callValue, requests, listingQueries,
           dirWrites>>
varsE == <<extractAllToRoot, log, files, dirs, xPromise, xError, ePc, nextCalls,
           nonEmpty, lostErrors>>
varsX == <<execPc, subscribed, inbox, closeCalls, raised, thrown, result, execQueue,
           published>>
vars == <<varsM, varsO, varsE, varsX>>

\* ------------------------------------------------------- findMatchingHash
\* JavaScript undefined (the result of _.findKey when nothing matches)
Undefined == "undefined"
\* the TypeError raised by elem.settings[key] when elem has no settings
TypeError == "TypeError"

\* the keys of ConanBuildProperties, in the order of the object literal
BuildKeys ==
    <<"os", "build_type", "compiler", "compiler.version", "compiler.libcxx",
      "arch", "stdver", "flagcollection">>

\* mutant: the compiler.libcxx exemption is keyed on the candidate's own
\* compiler.libcxx, like the other two
KeyMatches_LibcxxOwnKey(elem, key, val) ==
    IF (key = "compiler" \/ key = "compiler.version" \/ key = "compiler.libcxx")
        /\ elem.settings[key] = "cshared"
    THEN TRUE
    ELSE val = elem.settings[key]

\* the predicate _.all applies to one (val, key) of buildProperties
KeyMatches(elem, key, val) ==
    IF (key = "compiler" \/ key = "compiler.version") /\ elem.settings[key] = "cshared"
    THEN TRUE
    ELSE IF key = "compiler.libcxx" /\ elem.settings["compiler"] = "cshared"
    THEN TRUE
    ELSE val = elem.settings[key]

\* mutant: _.any where the code has _.all
AllKeysMatch_Any(buildProperties, elem) ==
    \E i \in 1..Len(BuildKeys) :
        KeyMatches(elem, BuildKeys[i], buildProperties[BuildKeys[i]])

\* _.all(buildProperties, ...) for one candidate
AllKeysMatch(buildProperties, elem) ==
    \A i \in 1..Len(BuildKeys) :
        KeyMatches(elem, BuildKeys[i], buildProperties[BuildKeys[i]])

\* _.findKey: the key of the first element, from position i on, the predicate
\* accepts; the predicate throws on an element without settings
RECURSIVE FindKey(_, _, _)
FindKey(buildProperties, possibleBuilds, i) ==
    IF i > Len(possibleBuilds) THEN Undefined
    ELSE IF ~possibleBuilds[i].hasSettings THEN TypeError
    ELSE IF AllKeysMatch(buildProperties, possibleBuilds[i]) THEN possibleBuilds[i].hash
    ELSE FindKey(buildProperties, possibleBuilds, i + 1)

\* mutant: the search starts one element too late
FindMatchingHash_SkipFirst(buildProperties, possibleBuilds) ==
    FindKey(buildProperties, possibleBuilds, 2)

FindMatchingHash(buildProperties, possibleBuilds) ==
    FindKey(buildProperties, possibleBuilds, 1)

\* ------------------------------------------------- inputs of the matcher
\* the package ids of a candidate mapping, by position (keys of an object are
\* distinct; non-numeric keys iterate in insertion order)
HashAt(i) == IF i = 1 THEN "h1" ELSE IF i = 2 THEN "h2" ELSE IF i = 3 THEN "h3" ELSE "h4"

\* getConanBuildProperties: os, build_type, stdver and flagcollection are
\* literals; compiler, compiler.version, compiler.libcxx, arch come from the
\* compiler's properties
ConanBuildProperties(compiler, version, libcxx, arch) ==
    [os |-> "Linux", build_type |-> "Debug", compiler |-> compiler,
     arch |-> arch, stdver |-> "", flagcollection |-> ""]
        @@ ("compiler.version" :> version) @@ ("compiler.libcxx" :> libcxx)

Descriptors ==
    { ConanBuildProperties(c, v, l, "x86_64") :
        c \in {"gcc", "clang"}, v \in {"11", "12"}, l \in {"libstdc++", "libc++"} }

\* settings of a repository package: Linux/Debug/x86_64 with at most one of the
\* compiler-independent attributes deviating
DeviatedSettings(dev, compiler, version, libcxx) ==
    [os |-> IF dev = "os" THEN "Windows" ELSE "Linux",
     build_type |-> IF dev = "build_type" THEN "Release" ELSE "Debug",
     compiler |-> compiler,
     arch |-> IF dev = "arch" THEN "x86" ELSE "x86_64",
     stdver |-> IF dev = "stdver" THEN "c++17" ELSE "",
     flagcollection |-> IF dev = "flagcollection" THEN "O3" ELSE ""]
        @@ ("compiler.version" :> version) @@ ("compiler.libcxx" :> libcxx)

CandidateSettings ==
    { DeviatedSettings(dev, c, v, l) :
        dev \in {"none", "os", "build_type", "arch", "stdver", "flagcollection"},
        c \in {"gcc", "cshared"}, v \in {"11", "cshared"},
        l \in {"libstdc++", "libc++"} }

\* ----------------------------------------------------- MatchSpec actions
\* setup has not been called
IdleO ==
    /\ host = FALSE
    /\ onlyonstaticliblink = FALSE
    /\ binary = FALSE
    /\ libraryDetails = <<>>
    /\ pc = "idle"
    /\ allLibraryBuilds = <<>>
    /\ idx = 1
    /\ libState = <<>>
    /\ allDownloads = <<>>
    /\ callState = "pending"
    /\ callValue = [results |-> <<>>, error |-> [lib |-> 0, kind |-> "none"]]
    /\ requests = {}
    /\ listingQueries = <<>>
    /\ dirWrites = {}

\* downloadAndExtractPackage has not been called
IdleE ==
    /\ extractAllToRoot = FALSE
    /\ log = <<>>
    /\ files = {}
    /\ dirs = {}
    /\ xPromise = "pending"
    /\ xError = "none"
    /\ ePc = "ready"
    /\ nextCalls = 0
    /\ nonEmpty = {}
    /\ lostErrors = {}

\* execute has not been called
IdleX ==
    /\ execPc = [c \in 1..MaxCalls |-> "idle"]
    /\ subscribed = [c \in 1..MaxCalls |-> FALSE]
    /\ inbox = [c \in 1..MaxCalls |-> <<>>]
    /\ closeCalls = [c \in 1..MaxCalls |-> 0]
    /\ raised = [c \in 1..MaxCalls |-> "none"]
    /\ thrown = [c \in 1..MaxCalls |-> "none"]
    /\ result = [c \in 1..MaxCalls |-> 0]
    /\ execQueue = {}
    /\ published = {}

InitM ==
    /\ fmProps \in Descriptors
    /\ fmBuilds = <<>>
    /\ fmHash = Undefined
    /\ fmPc = "args"
    /\ IdleO
    /\ IdleE
    /\ IdleX

\* the repository adds one more package to the mapping
AddBuild ==
    /\ fmPc = "args"
    /\ Len(fmBuilds) < MaxBuilds
    /\ \E s \in CandidateSettings :
        fmBuilds' = Append(fmBuilds,
            [hash |-> HashAt(Len(fmBuilds) + 1), hasSettings |-> TRUE, settings |-> s])
    /\ UNCHANGED <<fmProps, fmHash, fmPc, varsO, varsE, varsX>>

CallFindMatchingHash ==
    /\ fmPc = "args"
    /\ fmHash' = FindMatchingHash(fmProps, fmBuilds)
    /\ fmPc' = "done"
    /\ UNCHANGED <<fmProps, fmBuilds, varsO, varsE, varsX>>

NextM == AddBuild \/ CallFindMatchingHash

MatchSpec == InitM /\ [][NextM]_vars

\* ------------------------------------------------- setup / download: data
\* response.status of a listing the repository does not have
NotFound == 404

\* what the library-selection collaborator answers for one library
\* (BuildEnvSetupBase.hasBinariesToLink, shouldDownloadPackage)
HasBinariesToLink(details) == details.binariesToLink

ShouldDownloadPackage(details) == details.packagedheaders \/ HasBinariesToLink(details)

\* a LibraryVersion: version, the optional lookupname and lookupversion ("" when
\* absent), packagedheaders, and what hasBinariesToLink answers for it
DetailKinds ==
    { [packagedheaders |-> TRUE, binariesToLink |-> FALSE, version |-> "v1",
       lookupname |-> "", lookupversion |-> ""],
      [packagedheaders |-> FALSE, binariesToLink |-> TRUE, version |-> "v1",
       lookupname |-> "altname", lookupversion |-> "altver"],
      [packagedheaders |-> FALSE, binariesToLink |-> FALSE, version |-> "v1",
       lookupname |-> "altname", lookupversion |-> ""] }

\* the key of library i in libraryDetails
LibIdOf(i) == IF i = 1 THEN "lib1" ELSE IF i = 2 THEN "lib2" ELSE IF i = 3 THEN "lib3" ELSE "lib4"

\* mutant: the overrides are ignored
Lookup_IdOnly(details, libId) == [name |-> libId, version |-> details.version]

\* details.lookupname || libId, details.lookupversion || details.version
Lookup(details, libId) ==
    [name |-> IF details.lookupname # "" THEN details.lookupname ELSE libId,
     version |-> IF details.lookupversion # "" THEN details.lookupversion ELSE details.version]

\* the getAllPossibleBuilds calls of the _.each loop over the retained libraries
RECURSIVE ListingCalls(_, _, _)
ListingCalls(details, retained, i) ==
    IF i > Len(details) THEN <<>>
    ELSE (IF i \in retained
          THEN <<[lib |-> i, name |-> Lookup(details[i], LibIdOf(i)).name,
                  version |-> Lookup(details[i], LibIdOf(i)).version]>>
          ELSE <<>>) \o ListingCalls(details, retained, i + 1)

\* getConanBuildProperties(key) of the compiler the model runs for
BuildProps == ConanBuildProperties("gcc", "11", "libstdc++", "x86_64")

\* entries of a listing body: a package built for this compiler, a
\* compiler-agnostic one, one for another os, and an entry that is no package
\* record (no settings), as in an error body
PkgSame(i) ==
    [hash |-> HashAt(i), hasSettings |-> TRUE,
     settings |-> DeviatedSettings("none", "gcc", "11", "libstdc++")]
PkgShared(i) ==
    [hash |-> HashAt(i), hasSettings |-> TRUE,
     settings |-> DeviatedSettings("none", "cshared", "cshared", "libc++")]
PkgOtherOs(i) ==
    [hash |-> HashAt(i), hasSettings |-> TRUE,
     settings |-> DeviatedSettings("os", "gcc", "11", "libstdc++")]
NoPkg(i) == [hash |-> HashAt(i), hasSettings |-> FALSE, settings |-> <<>>]

\* bodies of a successful listing: every entry holds settings
PackageBodies ==
    { <<>>, <<PkgSame(1)>>, <<PkgOtherOs(1)>>, <<PkgOtherOs(1), PkgSame(2)>>,
      <<PkgShared(1), PkgSame(2)>> }
\* bodies of an error response
ErrorBodies ==
    { <<>>, <<NoPkg(1)>>, <<PkgSame(1)>>, <<PkgSame(1), NoPkg(2)>> }

\* what fetch + response.json() can give getAllPossibleBuilds
ListingResponses ==
    { [neterr |-> TRUE, status |-> 0, parseable |-> FALSE, isNull |-> FALSE, builds |-> <<>>] }
    \cup { [neterr |-> FALSE, status |-> st, parseable |-> FALSE, isNull |-> FALSE, builds |-> <<>>] :
            st \in {200, NotFound, 500} }
    \cup { [neterr |-> FALSE, status |-> st, parseable |-> TRUE, isNull |-> TRUE, builds |-> <<>>] :
            st \in {NotFound, 500} }
    \cup { [neterr |-> FALSE, status |-> 200, parseable |-> TRUE, isNull |-> FALSE, builds |-> b] :
            b \in PackageBodies }
    \cup { [neterr |-> FALSE, status |-> st, parseable |-> TRUE, isNull |-> FALSE, builds |-> b] :
            st \in {NotFound, 500}, b \in ErrorBodies }

\* what fetch + response.json() can give getPackageUrl
UrlResponses ==
    { [neterr |-> n, parseable |-> p, hasUrl |-> u] :
        n \in BOOLEAN, p \in BOOLEAN, u \in BOOLEAN }

NoError == [lib |-> 0, kind |-> "none"]

\* a possibleBuilds promise: phase "pending", "rejected", "false" (the value
\* false), "body" (a parsed body); status and neterr remember the response
Promise(phase, r) ==
    [phase |-> phase, status |-> r.status, neterr |-> r.neterr,
     isNull |-> (phase = "body" /\ r.isNull),
     builds |-> IF phase = "body" THEN r.builds ELSE <<>>]

NoResponse ==
    [neterr |-> FALSE, status |-> 0, parseable |-> FALSE, isNull |-> FALSE, builds |-> <<>>]

\* ---------------------------------------------- setup / download: helpers
\* getAllPossibleBuilds: the promise it returns, given the response
GetAllPossibleBuilds(r) ==
    IF r.neterr THEN Promise("rejected", r)          \* .catch: reject(err)
    ELSE IF r.status = NotFound THEN Promise("rejected", r)
    ELSE IF ~r.parseable THEN Promise("rejected", r) \* resolve(a rejected promise)
    ELSE Promise("body", r)

\* mutant: no .catch(() => false)
CatchFalse_Missing(p) == p

\* .catch(() => false)
CatchFalse(p) == IF p.phase = "rejected" THEN [p EXCEPT !.phase = "false"] ELSE p

\* if (possibleBuilds)
Truthy(p) == p.phase = "body" /\ ~p.isNull

\* getPackageUrl: "ok" or the reason it throws
GetPackageUrl(r) ==
    IF r.neterr THEN "fetch"
    ELSE IF ~r.parseable THEN "fetch"
    ELSE IF ~r.hasUrl THEN "MissingDownloadUrl"
    ELSE "ok"

\* mutant: the guards of setup forget onlyonstaticliblink
SetupReturnsEmpty_HostOnly(h, o, b) == ~h

\* the two early returns of setup
SetupReturnsEmpty(h, o, b) == ~h \/ (o /\ ~b)

Rejected(tasks) == { k \in 1..Len(tasks) : tasks[k].state = "rejected" }
Fulfilled(tasks) == { k \in 1..Len(tasks) : tasks[k].state = "fulfilled" }
Lowest(S) == CHOOSE k \in S : \A j \in S : k <= j

\* mutant: waits for every promise, then rejects (Promise.allSettled style)
PromiseAll_WaitAll(tasks) ==
    IF Rejected(tasks) \cup Fulfilled(tasks) # 1..Len(tasks)
    THEN [state |-> "pending", results |-> <<>>, error |-> NoError]
    ELSE IF Rejected(tasks) # {}
    THEN [state |-> "rejected", results |-> <<>>,
          error |-> [lib |-> tasks[Lowest(Rejected(tasks))].lib,
                     kind |-> tasks[Lowest(Rejected(tasks))].error]]
    ELSE [state |-> "resolved", results |-> [k \in 1..Len(tasks) |-> tasks[k].lib],
          error |-> NoError]

\* mutant: returns the results of the promises that fulfilled
PromiseAll_Partial(tasks) ==
    IF Rejected(tasks) \cup Fulfilled(tasks) # 1..Len(tasks)
    THEN [state |-> "pending", results |-> <<>>, error |-> NoError]
    ELSE [state |-> "resolved",
          results |-> [k \in 1..Cardinality(Fulfilled(tasks)) |->
                tasks[CHOOSE f \in Fulfilled(tasks) :
                    Cardinality({g \in Fulfilled(tasks) : g < f}) = k - 1].lib],
          error |-> NoError]

\* Promise.all(allDownloads): rejects with the first rejection it sees,
\* resolves with every result, in the order of allDownloads, once all fulfilled
PromiseAll(tasks) ==
    IF Rejected(tasks) # {}
    THEN [state |-> "rejected", results |-> <<>>,
          error |-> [lib |-> tasks[Lowest(Rejected(tasks))].lib,
                     kind |-> tasks[Lowest(Rejected(tasks))].error]]
    ELSE IF Fulfilled(tasks) = 1..Len(tasks)
    THEN [state |-> "resolved", results |-> [k \in 1..Len(tasks) |-> tasks[k].lib],
          error |-> NoError]
    ELSE [state |-> "pending", results |-> <<>>, error |-> NoError]

\* the returned promise follows Promise.all once download() has returned it
Settle(tasks) ==
    /\ callState' = PromiseAll(tasks).state
    /\ callValue' = [results |-> PromiseAll(tasks).results, error |-> PromiseAll(tasks).error]

\* download() throws: the returned promise rejects
Throw(lib, kind) ==
    /\ callState' = "rejected"
    /\ callValue' = [results |-> <<>>, error |-> [lib |-> lib, kind |-> kind]]
    /\ pc' = "done"

\* the for loop has moved to position n: past the end, Promise.all is called
Advance(n, tasks) ==
    /\ idx' = n
    /\ IF n > Len(allLibraryBuilds')
       THEN pc' = "joined" /\ Settle(tasks)
       ELSE pc' = "loop" /\ UNCHANGED <<callState, callValue>>

\* --------------------------------------------------------- Spec actions
Init ==
    /\ host \in BOOLEAN
    /\ onlyonstaticliblink \in BOOLEAN
    /\ binary \in BOOLEAN
    /\ libraryDetails \in [1..MaxLibs -> DetailKinds]
    /\ pc = "idle"
    /\ allLibraryBuilds = <<>>
    /\ idx = 1
    /\ libState = [i \in 1..MaxLibs |-> Promise("none", NoResponse)]
    /\ allDownloads = <<>>
    /\ callState = "pending"
    /\ callValue = [results |-> <<>>, error |-> NoError]
    /\ requests = {}
    /\ listingQueries = <<>>
    /\ dirWrites = {}
    /\ fmProps = BuildProps
    /\ fmBuilds = <<>>
    /\ fmHash = Undefined
    /\ fmPc = "idle"
    /\ IdleE
    /\ IdleX

\* setup(key, dirPath, libraryDetails, binary), up to the first await of
\* download() that has to wait
Setup ==
    /\ pc = "idle"
    /\ IF SetupReturnsEmpty(host, onlyonstaticliblink, binary)
       THEN /\ pc' = "done"
            /\ callState' = "resolved"
            /\ UNCHANGED <<allLibraryBuilds, idx, libState, callValue, requests,
                           listingQueries>>
       ELSE LET librariesToDownload ==
                    { i \in 1..Len(libraryDetails) : ShouldDownloadPackage(libraryDetails[i]) }
                retained ==
                    { i \in librariesToDownload :
                        libraryDetails[i].packagedheaders \/ HasBinariesToLink(libraryDetails[i]) }
            IN  /\ allLibraryBuilds' =
                        SelectSeq([i \in 1..Len(libraryDetails) |-> i], LAMBDA i : i \in retained)
                /\ libState' = [i \in 1..Len(libraryDetails) |->
                        IF i \in retained THEN Promise("pending", NoResponse) ELSE libState[i]]
                /\ requests' = requests \cup { <<"search", i>> : i \in retained }
                /\ listingQueries' = ListingCalls(libraryDetails, retained, 1)
                /\ Advance(1, allDownloads)
    /\ UNCHANGED <<host, onlyonstaticliblink, binary, libraryDetails, allDownloads,
                   dirWrites, varsM, varsE, varsX>>

\* the repository answers the listing query of library i
ListingRespond(i) ==
    /\ libState[i].phase = "pending"
    /\ \E r \in ListingResponses :
        libState' = [libState EXCEPT ![i] = CatchFalse(GetAllPossibleBuilds(r))]
    /\ UNCHANGED <<host, onlyonstaticliblink, binary, libraryDetails, pc, allLibraryBuilds,
                   idx, allDownloads, callState, callValue, requests, listingQueries,
                   dirWrites, varsM, varsE, varsX>>

\* mutant: the loop also awaits every download it has started so far
Awaited_DownloadsToo(i) ==
    /\ libState[i].phase \in {"rejected", "false", "body"}
    /\ \A k \in 1..Len(allDownloads) : allDownloads[k].state \in {"fulfilled", "rejected"}

\* await libVerBuilds.possibleBuilds returns: the listing promise of library i
\* has settled
Awaited(i) == libState[i].phase \in {"rejected", "false", "body"}

\* one iteration of the for loop (and the return, after the last one)
LoopStep ==
    /\ pc = "loop"
    /\ idx <= Len(allLibraryBuilds)
    /\ LET i == allLibraryBuilds[idx]
           possibleBuilds == libState[i]
           hash == FindMatchingHash(BuildProps, possibleBuilds.builds)
           done(what) == [libState EXCEPT ![i].phase = what, ![i].builds = <<>>]
       IN  /\ Awaited(i)
           /\ IF possibleBuilds.phase = "rejected"
              THEN /\ Throw(i, "listing")
                   /\ libState' = done("threw")
                   /\ UNCHANGED <<idx, allDownloads, requests>>
              ELSE IF ~Truthy(possibleBuilds)
              THEN /\ libState' = done("unavailable")
                   /\ UNCHANGED <<allDownloads, requests, allLibraryBuilds>>
                   /\ Advance(idx + 1, allDownloads)
              ELSE IF hash = TypeError
              THEN /\ Throw(i, TypeError)
                   /\ libState' = done("threw")
                   /\ UNCHANGED <<idx, allDownloads, requests>>
              ELSE IF hash = Undefined \/ hash = ""
              THEN /\ libState' = done("nomatch")
                   /\ UNCHANGED <<allDownloads, requests, allLibraryBuilds>>
                   /\ Advance(idx + 1, allDownloads)
              ELSE /\ libState' = done("matched")
                   /\ allDownloads' = Append(allDownloads,
                        [lib |-> i, hash |-> hash, state |-> "url", error |-> "none"])
                   /\ requests' = requests \cup {<<"download_urls", i>>}
                   /\ UNCHANGED allLibraryBuilds
                   /\ Advance(idx + 1, allDownloads')
    /\ UNCHANGED <<host, onlyonstaticliblink, binary, libraryDetails, allLibraryBuilds,
                   listingQueries, dirWrites, varsM, varsE, varsX>>

\* a promise of allDownloads changed: Promise.all, if called and pending, follows
Follow(tasks) ==
    IF pc = "joined" /\ callState = "pending"
    THEN Settle(tasks)
    ELSE UNCHANGED <<callState, callValue>>

\* the repository answers the download_urls query of allDownloads[k]
UrlRespond(k) ==
    /\ allDownloads[k].state = "url"
    /\ \E r \in UrlResponses :
        /\ allDownloads' =
            IF GetPackageUrl(r) = "ok"
            THEN [allDownloads EXCEPT ![k].state = "extract"]
            ELSE [allDownloads EXCEPT ![k].state = "rejected", ![k].error = GetPackageUrl(r)]
        /\ requests' =
            IF GetPackageUrl(r) = "ok"
            THEN requests \cup {<<"archive", allDownloads[k].lib>>}
            ELSE requests
    /\ Follow(allDownloads')
    /\ UNCHANGED <<host, onlyonstaticliblink, binary, libraryDetails, pc, allLibraryBuilds,
                   idx, libState, listingQueries, dirWrites, varsM, varsE, varsX>>

\* downloadAndExtractPackage of allDownloads[k] settles: its promise resolves
\* or rejects, and its entry handler may have written below dirPath
ExtractSettle(k) ==
    /\ allDownloads[k].state = "extract"
    /\ \E ok \in BOOLEAN :
        allDownloads' =
            IF ok THEN [allDownloads EXCEPT ![k].state = "fulfilled"]
            ELSE [allDownloads EXCEPT ![k].state = "rejected", ![k].error = "extract"]
    /\ dirWrites' = dirWrites \cup {allDownloads[k].lib}
    /\ Follow(allDownloads')
    /\ UNCHANGED <<host, onlyonstaticliblink, binary, libraryDetails, pc, allLibraryBuilds,
                   idx, libState, requests, listingQueries, varsM, varsE, varsX>>

Next ==
    \/ Setup
    \/ \E i \in 1..MaxLibs : ListingRespond(i)
    \/ LoopStep
    \/ \E k \in 1..Len(allDownloads) : UrlRespond(k)
    \/ \E k \in 1..Len(allDownloads) : ExtractSettle(k)

Spec == Init /\ [][Next]_vars

\* --------------------------------------------- downloadAndExtractPackage
\* Paths are sequences of segments; an absolute path is the sequence of its
\* segments below "/". Strings are compared character by character, so a
\* segment is also given as its characters.
Chars(seg) ==
    CASE seg = "tmp" -> <<"t", "m", "p">>
      [] seg = "dl" -> <<"d", "l">>
      [] seg = "dlx" -> <<"d", "l", "x">>
      [] seg = "lib" -> <<"l", "i", "b">>
      [] seg = "inc" -> <<"i", "n", "c">>
      [] seg = "a" -> <<"a">>
      [] seg = ".." -> <<".", ".">>
      [] OTHER -> <<>>

\* the string of an absolute path
RECURSIVE PathString(_)
PathString(p) ==
    IF p = <<>> THEN <<>>
    ELSE <<"/">> \o Chars(Head(p)) \o PathString(Tail(p))

\* path.normalize of an absolute path: ".." removes the segment before it
RECURSIVE Normalize(_, _)
Normalize(segs, acc) ==
    IF segs = <<>> THEN acc
    ELSE IF Head(segs) = ".."
    THEN Normalize(Tail(segs), IF acc = <<>> THEN <<>> ELSE SubSeq(acc, 1, Len(acc) - 1))
    ELSE IF Head(segs) = "." \/ Head(segs) = ""
    THEN Normalize(Tail(segs), acc)
    ELSE Normalize(Tail(segs), Append(acc, Head(segs)))

\* path.join(base, ...parts) for an absolute base
PathJoin(base, parts) == Normalize(base \o parts, <<>>)

\* path.basename(zippedPath)
Basename(segs) == IF segs = <<>> THEN <<>> ELSE <<segs[Len(segs)]>>

\* path.dirname of a normalized absolute path
Dirname(p) == IF p = <<>> THEN <<>> ELSE SubSeq(p, 1, Len(p) - 1)

\* String.prototype.startsWith on the characters
StartsWith(s, prefix) ==
    Len(prefix) <= Len(s) /\ SubSeq(s, 1, Len(prefix)) = prefix

\* dirPath and libId of the extraction the model follows
DownloadPath == <<"tmp", "dl">>
LibId == "lib"

\* header.name of the entries an archive can hold, split at "/"
EntryNames ==
    { <<"a">>, <<"inc", "a">>, <<"..", "a">>, <<"..", "..", "a">>, <<"..">>,
      <<"..", "..", "dlx", "a">>, <<"..", "..", "dl", "a">> }

\* header.size: 0, or some bytes
Headers == { [name |-> n, size |-> s] : n \in EntryNames, s \in {0, 1} }

getDestinationFilepath(flatten, downloadPath, zippedPath, libId) ==
    IF flatten
    THEN PathJoin(downloadPath, Basename(zippedPath))
    ELSE PathJoin(downloadPath, <<libId>> \o zippedPath)

\* resolved.startsWith(downloadPath), resolved = path.resolve(path.dirname(filepath))
PassesZipSlipCheck(filepath, downloadPath) ==
    StartsWith(PathString(Dirname(filepath)), PathString(downloadPath))

\* the directories mkdirp(dir) makes sure exist (it creates the missing ones;
\* dirPath and the directories above it exist)
RECURSIVE Ancestors(_)
Ancestors(dir) == IF dir = <<>> THEN {} ELSE {dir} \cup Ancestors(Dirname(dir))

\* reject(error): a settled promise stays as it is
Reject(kind) ==
    /\ xPromise' = IF xPromise = "pending" THEN "rejected" ELSE xPromise
    /\ xError' = IF xPromise = "pending" THEN kind ELSE xError

\* the outcome of the entry being handled is set
Outcome(what) == [log EXCEPT ![Len(log)].outcome = what]

\* an entry as the handler receives it: no write stream yet
Handling(h, what) ==
    [name |-> h.name, size |-> h.size, outcome |-> what, filestream |-> "none"]

\* mutant: a zip-slip entry is treated as an error of the archive
SkipEntry_Reject(h) ==
    /\ log' = Append(log, Handling(h, "skipped"))
    /\ Reject("zip-slip")
    /\ ePc' = "stalled"
    /\ UNCHANGED <<files, dirs, nextCalls, nonEmpty>>

\* the zip-slip branch: stream.resume(); next(); return
SkipEntry(h) ==
    /\ log' = Append(log, Handling(h, "skipped"))
    /\ nextCalls' = nextCalls + 1
    /\ ePc' = "ready"
    /\ UNCHANGED <<files, dirs, xPromise, xError, nonEmpty>>

\* mutant: next is called right after the write stream is made, for every
\* size, and again when the piped stream ends
WriteEntry_EarlyNext(h, filepath, lg) ==
    /\ files' = files \cup {filepath}
    /\ nonEmpty' = nonEmpty \ {filepath}
    /\ nextCalls' = nextCalls + 1
    /\ IF h.size = 0
       THEN /\ ePc' = "ready"
            /\ log' = [lg EXCEPT ![Len(lg)].outcome = "written",
                                 ![Len(lg)].filestream = "open"]
       ELSE /\ ePc' = "piping"
            /\ log' = [lg EXCEPT ![Len(lg)].filestream = "open"]

\* mutant: no branch for header.size === 0, every entry is piped
WriteEntry_PipeAlways(h, filepath, lg) ==
    /\ files' = files \cup {filepath}
    /\ nonEmpty' = nonEmpty \ {filepath}
    /\ ePc' = "piping"
    /\ log' = [lg EXCEPT ![Len(lg)].filestream = "open"]
    /\ UNCHANGED nextCalls

\* fs.createWriteStream(filepath) (the file is created, or truncated) and what
\* follows it in the handler; lg is the log with the entry in it
WriteEntry(h, filepath, lg) ==
    /\ files' = files \cup {filepath}
    /\ nonEmpty' = nonEmpty \ {filepath}
    /\ IF h.size = 0
       THEN /\ nextCalls' = nextCalls + 1
            /\ ePc' = "ready"
            /\ log' = [lg EXCEPT ![Len(lg)].outcome = "written",
                                 ![Len(lg)].filestream = "open"]
       ELSE /\ ePc' = "piping"
            /\ log' = [lg EXCEPT ![Len(lg)].filestream = "open"]
            /\ UNCHANGED nextCalls

\* ------------------------------------------------- ExtractSpec actions
InitE ==
    /\ extractAllToRoot \in BOOLEAN
    /\ log = <<>>
    /\ files = {}
    /\ dirs = {}
    /\ xPromise = "pending"
    /\ xError = "none"
    /\ ePc = "ready"
    /\ nextCalls = 0
    /\ nonEmpty = {}
    /\ lostErrors = {}
    /\ IdleO
    /\ IdleX
    /\ fmProps = BuildProps
    /\ fmBuilds = <<>>
    /\ fmHash = Undefined
    /\ fmPc = "idle"

\* the 'entry' event: the handler up to its first await
Entry(h) ==
    /\ ePc = "ready"
    /\ Len(log) < MaxEntries
    /\ LET filepath == getDestinationFilepath(extractAllToRoot, DownloadPath, h.name, LibId)
           handling == Append(log, Handling(h, "handling"))
       IN  IF ~PassesZipSlipCheck(filepath, DownloadPath)
           THEN SkipEntry(h)
           ELSE IF ~extractAllToRoot
           THEN /\ ePc' = "mkdirp"
                /\ log' = handling
                /\ UNCHANGED <<files, dirs, xPromise, xError, nextCalls, nonEmpty>>
           ELSE /\ WriteEntry(h, filepath, handling)
                /\ UNCHANGED <<dirs, xPromise, xError>>
    /\ UNCHANGED <<extractAllToRoot, lostErrors, varsM, varsO, varsX>>

\* await mkdirp(...) returns: the rest of the handler
MkdirpDone ==
    /\ ePc = "mkdirp"
    /\ LET h == log[Len(log)]
           filepath == getDestinationFilepath(extractAllToRoot, DownloadPath, h.name, LibId)
       IN  /\ dirs' = dirs \cup (Ancestors(Dirname(filepath)) \ Ancestors(DownloadPath))
           /\ WriteEntry(h, filepath, log)
    /\ UNCHANGED <<extractAllToRoot, xPromise, xError, lostErrors, varsM, varsO, varsX>>

\* await mkdirp(...) throws: catch, reject(error); next is not called
MkdirpFails ==
    /\ ePc = "mkdirp"
    /\ Reject("mkdirp")
    /\ log' = Outcome("failed")
    /\ ePc' = "stalled"
    /\ UNCHANGED <<extractAllToRoot, files, dirs, nextCalls, nonEmpty, lostErrors,
                   varsM, varsO, varsX>>

\* the entry's stream ends: the pipe ends the write stream, 'end' calls next
StreamEnd ==
    /\ ePc = "piping"
    /\ log' = [log EXCEPT ![Len(log)].outcome = "written",
                          ![Len(log)].filestream = "ended"]
    /\ nonEmpty' = nonEmpty \cup
            {getDestinationFilepath(extractAllToRoot, DownloadPath, log[Len(log)].name, LibId)}
    /\ nextCalls' = nextCalls + 1
    /\ ePc' = "ready"
    /\ UNCHANGED <<extractAllToRoot, files, dirs, xPromise, xError, lostErrors, varsM, varsO, varsX>>

\* the entry's stream emits 'error': reject(error); 'end' never comes
StreamError ==
    /\ ePc = "piping"
    /\ Reject("stream")
    /\ log' = Outcome("failed")
    /\ ePc' = "stalled"
    /\ UNCHANGED <<extractAllToRoot, files, dirs, nextCalls, nonEmpty, lostErrors,
                   varsM, varsO, varsX>>

\* fetch, gunzip or tar-stream fails between two entries: reject(error)
PipelineError ==
    /\ ePc = "ready"
    /\ Reject("pipeline")
    /\ ePc' = "stalled"
    /\ UNCHANGED <<extractAllToRoot, log, files, dirs, nextCalls, nonEmpty, lostErrors,
                   varsM, varsO, varsX>>

\* reader.read() rejects inside the async read() of the Readable wrapped around
\* the response body: nothing is pushed any more, and neither that promise nor
\* the Readable has a handler that calls reject
ReadError ==
    /\ ePc \in {"ready", "mkdirp", "piping"}
    /\ lostErrors' = lostErrors \cup {"read"}
    /\ ePc' = "stalled"
    /\ UNCHANGED <<extractAllToRoot, log, files, dirs, xPromise, xError, nextCalls,
                   nonEmpty, varsM, varsO, varsX>>

\* the write stream of entry n has written what was piped into it and closes
FileFinish(n) ==
    /\ n \in 1..Len(log)
    /\ log[n].filestream = "ended"
    /\ log' = [log EXCEPT ![n].filestream = "finished"]
    /\ UNCHANGED <<extractAllToRoot, files, dirs, xPromise, xError, ePc, nextCalls,
                   nonEmpty, lostErrors, varsM, varsO, varsX>>

\* the write stream of entry n emits 'error' (open or write fails): filestream
\* has no 'error' listener. While the entry is piped into it the pipe is
\* undone and 'end' never comes; whether the entry's stream then emits 'error'
\* itself depends on the stream library
WriteError(n) ==
    /\ n \in 1..Len(log)
    /\ log[n].filestream \in {"open", "ended"}
    /\ IF n = Len(log) /\ ePc = "piping"
       THEN /\ log' = [log EXCEPT ![n].filestream = "failed", ![n].outcome = "failed"]
            /\ ePc' = "stalled"
            /\ \/ /\ lostErrors' = lostErrors \cup {"write"}
                  /\ UNCHANGED <<xPromise, xError>>
               \/ /\ Reject("stream")
                  /\ UNCHANGED lostErrors
       ELSE /\ log' = [log EXCEPT ![n].filestream = "failed"]
            /\ lostErrors' = lostErrors \cup {"write"}
            /\ UNCHANGED <<xPromise, xError, ePc>>
    /\ UNCHANGED <<extractAllToRoot, files, dirs, nextCalls, nonEmpty, varsM, varsO, varsX>>

\* the archive ends after the last entry's next(): 'finish' resolves
Finish ==
    /\ ePc = "ready"
    /\ xPromise' = IF xPromise = "pending" THEN "resolved" ELSE xPromise
    /\ ePc' = "finished"
    /\ UNCHANGED <<extractAllToRoot, log, files, dirs, xError, nextCalls, nonEmpty,
                   lostErrors, varsM, varsO, varsX>>

NextE ==
    \/ \E h \in Headers : Entry(h)
    \/ MkdirpDone
    \/ MkdirpFails
    \/ StreamEnd
    \/ StreamError
    \/ PipelineError
    \/ ReadError
    \/ \E n \in 1..MaxEntries : FileFinish(n)
    \/ \E n \in 1..MaxEntries : WriteError(n)
    \/ Finish

ExtractSpec == InitE /\ [][NextE]_vars

\* ------------------------------------- RemoteExecutionEnvironment.execute
Calls == 1..MaxCalls

\* mutant: the request is pushed before the waiter subscribes
TryBlock_PushFirst == <<"push", "subscribe", "data", "close">>

\* the awaits of the try block, in order
TryBlock == <<"subscribe", "push", "data", "close">>

\* where the call stands after the await it stands at has returned
After(stage) ==
    LET n == CHOOSE m \in 1..Len(TryBlock) : TryBlock[m] = stage
    IN  IF n = Len(TryBlock) THEN "returned" ELSE TryBlock[n + 1]

\* mutant: the catch block rethrows without closing the waiter
Catch_NoClose(c, e, closes) ==
    /\ closeCalls' = [closeCalls EXCEPT ![c] = closes]
    /\ thrown' = [thrown EXCEPT ![c] = e]
    /\ execPc' = [execPc EXCEPT ![c] = "threw"]

\* catch (e) { waiter.close(); logger.error(e); throw e; }, closes being the
\* calls of close made before
Catch(c, e, closes) ==
    /\ closeCalls' = [closeCalls EXCEPT ![c] = closes + 1]
    /\ thrown' = [thrown EXCEPT ![c] = e]
    /\ execPc' = [execPc EXCEPT ![c] = "threw"]

\* the waiters a message for the shared guid reaches
Listening(c) == subscribed[c] /\ closeCalls[c] = 0

InitX ==
    /\ IdleX
    /\ IdleO
    /\ IdleE
    /\ fmProps = BuildProps
    /\ fmBuilds = <<>>
    /\ fmHash = Undefined
    /\ fmPc = "idle"

\* execute(params): a waiter is made and the first await is reached
Execute(c) ==
    /\ execPc[c] = "idle"
    /\ execPc' = [execPc EXCEPT ![c] = TryBlock[1]]
    /\ UNCHANGED <<subscribed, inbox, closeCalls, raised, thrown, result, execQueue,
                   published, varsM, varsO, varsE>>

\* await waiter.subscribe(this.guid) returns
SubscribeOk(c) ==
    /\ execPc[c] = "subscribe"
    /\ subscribed' = [subscribed EXCEPT ![c] = TRUE]
    /\ execPc' = [execPc EXCEPT ![c] = After("subscribe")]
    /\ UNCHANGED <<inbox, closeCalls, raised, thrown, result, execQueue, published,
                   varsM, varsO, varsE>>

\* execQueue.push(...): the request, carrying the guid, is in the queue
PushSent(c) ==
    /\ execPc[c] = "push"
    /\ c \notin execQueue
    /\ execQueue' = execQueue \cup {c}
    /\ UNCHANGED <<execPc, subscribed, inbox, closeCalls, raised, thrown, result,
                   published, varsM, varsO, varsE>>

\* await this.queueRemoteExecution(params) returns
PushOk(c) ==
    /\ execPc[c] = "push"
    /\ c \in execQueue
    /\ execPc' = [execPc EXCEPT ![c] = After("push")]
    /\ UNCHANGED <<subscribed, inbox, closeCalls, raised, thrown, result, execQueue,
                   published, varsM, varsO, varsE>>

\* a worker took request r from the queue and publishes its result under the
\* guid: every waiter listening on the guid receives it
Publish(r) ==
    /\ r \in execQueue \ published
    /\ published' = published \cup {r}
    /\ inbox' = [c \in Calls |-> IF Listening(c) THEN Append(inbox[c], r) ELSE inbox[c]]
    /\ UNCHANGED <<execPc, subscribed, closeCalls, raised, thrown, result, execQueue,
                   varsM, varsO, varsE>>

\* const result = await waiter.data() returns
DataOk(c) ==
    /\ execPc[c] = "data"
    /\ inbox[c] # <<>>
    /\ result' = [result EXCEPT ![c] = Head(inbox[c])]
    /\ execPc' = [execPc EXCEPT ![c] = After("data")]
    /\ UNCHANGED <<subscribed, inbox, closeCalls, raised, thrown, execQueue, published,
                   varsM, varsO, varsE>>

\* await waiter.close() returns; return result
CloseOk(c) ==
    /\ execPc[c] = "close"
    /\ closeCalls' = [closeCalls EXCEPT ![c] = @ + 1]
    /\ execPc' = [execPc EXCEPT ![c] = After("close")]
    /\ UNCHANGED <<subscribed, inbox, raised, thrown, result, execQueue, published,
                   varsM, varsO, varsE>>

\* the await the call stands at rejects: the catch block runs
AwaitRejects(c) ==
    /\ execPc[c] \in {"subscribe", "push", "data", "close"}
    /\ raised' = [raised EXCEPT ![c] = execPc[c]]
    /\ Catch(c, execPc[c], IF execPc[c] = "close" THEN closeCalls[c] + 1 ELSE closeCalls[c])
    /\ UNCHANGED <<subscribed, inbox, result, execQueue, published, varsM, varsO, varsE>>

NextX ==
    \/ \E c \in Calls : Execute(c)
    \/ \E c \in Calls : SubscribeOk(c)
    \/ \E c \in Calls : PushSent(c)
    \/ \E c \in Calls : PushOk(c)
    \/ \E r \in Calls : Publish(r)
    \/ \E c \in Calls : DataOk(c)
    \/ \E c \in Calls : CloseOk(c)
    \/ \E c \in Calls : AwaitRejects(c)

ExecSpec == InitX /\ [][NextX]_vars


\* ------------------------------------------------------------ claims
\* the attributes outside the compiler triple
OtherKeys == {"os", "build_type", "arch", "stdver", "flagcollection"}

OthersEqual(d, s) == \A k \in OtherKeys : d[k] = s[k]

\* the matching rule, attribute by attribute: equality, except that a
\* candidate's own "cshared" under compiler or compiler.version, and a
\* candidate's compiler "cshared" for compiler.libcxx, exempt that attribute
Exempt(k, s) ==
    \/ k \in {"compiler", "compiler.version"} /\ s[k] = "cshared"
    \/ k = "compiler.libcxx" /\ s["compiler"] = "cshared"

SatisfiesRule(d, s) == \A k \in DOMAIN d : Exempt(k, s) \/ d[k] = s[k]

\* the hashes of the candidates at positions 1..i
HashesUpTo(builds, i) == { builds[j].hash : j \in 1..i }

\* C2 (as claimed): a candidate whose compiler is "cshared" and whose other
\* attributes equal the descriptor's is matched (select returns it or a
\* candidate before it), whatever its compiler.version and compiler.libcxx are
C2_CsharedMatchesAnyVersion ==
    fmPc = "done" =>
        \A i \in 1..Len(fmBuilds) :
            (fmBuilds[i].settings["compiler"] = "cshared"
                /\ OthersEqual(fmProps, fmBuilds[i].settings))
            => fmHash \in HashesUpTo(fmBuilds, i)

\* C2 (amended): such a candidate is matched whatever the descriptor's compiler
\* and compiler.libcxx and its own compiler.libcxx are, when its
\* compiler.version is "cshared" or equals the descriptor's
C2_CsharedMatches ==
    fmPc = "done" =>
        \A i \in 1..Len(fmBuilds) :
            (fmBuilds[i].settings["compiler"] = "cshared"
                /\ fmBuilds[i].settings["compiler.version"]
                        \in {"cshared", fmProps["compiler.version"]}
                /\ OthersEqual(fmProps, fmBuilds[i].settings))
            => fmHash \in HashesUpTo(fmBuilds, i)

\* a lone cshared/cshared package is returned for a clang 12 request whose
\* compiler.libcxx differs from the package's
C2_Witness ==
    /\ fmPc = "done"
    /\ Len(fmBuilds) = 1
    /\ fmBuilds[1].settings["compiler"] = "cshared"
    /\ fmBuilds[1].settings["compiler.version"] = "cshared"
    /\ fmBuilds[1].settings["compiler.libcxx"] # fmProps["compiler.libcxx"]
    /\ fmProps["compiler"] = "clang"
    /\ fmProps["compiler.version"] = "12"
    /\ fmHash = fmBuilds[1].hash

\* C7 (as claimed): a candidate whose settings equal the descriptor attribute
\* for attribute has its hash returned
C7_EqualCandidateReturned ==
    fmPc = "done" =>
        \A i \in 1..Len(fmBuilds) :
            fmBuilds[i].settings = fmProps => fmHash = fmBuilds[i].hash

\* C7 (amended): with such a candidate in the list the result is its hash or
\* the hash of a candidate before it, and its own hash when no candidate
\* before it satisfies the matching rule
C7_EqualCandidateOrEarlier ==
    fmPc = "done" =>
        \A i \in 1..Len(fmBuilds) :
            fmBuilds[i].settings = fmProps =>
                /\ fmHash \in HashesUpTo(fmBuilds, i)
                /\ (\A j \in 1..(i - 1) : ~SatisfiesRule(fmProps, fmBuilds[j].settings))
                        => fmHash = fmBuilds[i].hash

\* the equal candidate is second, the first one does not match, and the
\* second one's hash is returned
C7_Witness ==
    /\ fmPc = "done"
    /\ Len(fmBuilds) = 2
    /\ fmBuilds[2].settings = fmProps
    /\ ~SatisfiesRule(fmProps, fmBuilds[1].settings)
    /\ fmHash = fmBuilds[2].hash

\* ---- claims about setup / download (Spec)
\* library i's listing query has been answered
Answered(i) == libState[i].phase \notin {"none", "pending"}

TasksOf(i) == { k \in 1..Len(allDownloads) : allDownloads[k].lib = i }

InResults(i) == \E k \in 1..Len(callValue.results) : callValue.results[k] = i

\* C3: once a dispatched download has failed (URL resolution, missing
\* conan_package.tgz key, fetch or extraction), the call never returns results:
\* when it settles it is rejected, with no DownloadResult, and, unless
\* download() itself threw, with the failure of a dispatched download
C3_FailureRejectsCall ==
    /\ (callState # "pending" /\ Rejected(allDownloads) # {}) => callState = "rejected"
    /\ callState = "rejected" =>
        /\ callValue.results = <<>>
        /\ callValue.error.kind \notin {TypeError, "listing"} =>
            \E k \in Rejected(allDownloads) :
                /\ callValue.error.lib = allDownloads[k].lib
                /\ callValue.error.kind = allDownloads[k].error

\* one download fulfilled, another one's response had no conan_package.tgz
\* key, and the call rejected with that error
C3_Witness ==
    /\ callState = "rejected"
    /\ Fulfilled(allDownloads) # {}
    /\ callValue.error.kind = "MissingDownloadUrl"
    /\ \E k \in Rejected(allDownloads) : allDownloads[k].lib = callValue.error.lib

\* C4: a library whose listing answered 404 or failed at the transport level
\* gets no URL resolution, no archive fetch and no write, is in no result, is
\* never the reason the call rejects, and the loop goes on past it
C4_ListingFailureOmitsLibrary ==
    \A i \in 1..MaxLibs :
        (Answered(i) /\ (libState[i].neterr \/ libState[i].status = NotFound)) =>
            /\ TasksOf(i) = {}
            /\ <<"download_urls", i>> \notin requests
            /\ <<"archive", i>> \notin requests
            /\ i \notin dirWrites
            /\ ~InResults(i)
            /\ callValue.error.lib # i
            /\ libState[i].phase = "unavailable" =>
                /\ pc = "loop" => allLibraryBuilds[idx] > i
                /\ (pc = "joined" /\ Fulfilled(allDownloads) = 1..Len(allDownloads)) =>
                    /\ callState = "resolved"
                    /\ callValue.results = [k \in 1..Len(allDownloads) |-> allDownloads[k].lib]

\* the first library's listing answered 404, the second library was
\* downloaded, and the call resolved with the second library's result alone
C4_Witness ==
    /\ MaxLibs >= 2
    /\ libState[1].phase = "unavailable"
    /\ libState[1].status = NotFound
    /\ callState = "resolved"
    /\ callValue.results = <<2>>

\* C5 (as claimed): a library whose listing answered with a 5xx status is
\* skipped: no download is dispatched for it and the call does not fail
\* because of it
C5_ServerErrorOmitsLibrary ==
    \A i \in 1..MaxLibs :
        (Answered(i) /\ ~libState[i].neterr /\ libState[i].status = 500) =>
            /\ TasksOf(i) = {}
            /\ callValue.error.lib # i

\* C6 (as claimed): the call settles only once every dispatched download has
\* settled
C6_SettlesAfterAllSettled ==
    callState # "pending" =>
        \A k \in 1..Len(allDownloads) : allDownloads[k].state \in {"fulfilled", "rejected"}

\* C6 (amended): the call resolves only once every dispatched download has
\* fulfilled, with all their results in dispatch order; once Promise.all has
\* been called, a rejected download rejects the call at once, whatever the
\* others are doing
C6_ResolvesAfterAllRejectsAtFirst ==
    /\ callState = "resolved" =>
        /\ Fulfilled(allDownloads) = 1..Len(allDownloads)
        /\ callValue.results = [k \in 1..Len(allDownloads) |-> allDownloads[k].lib]
    /\ (pc = "joined" /\ Rejected(allDownloads) # {}) => callState = "rejected"

\* the call has rejected while another download is still in flight
C6_Witness ==
    /\ pc = "joined"
    /\ callState = "rejected"
    /\ \E k \in 1..Len(allDownloads) : allDownloads[k].state \in {"url", "extract"}

\* positions of the candidates that satisfy the matching rule
Satisfying(builds) ==
    { j \in 1..Len(builds) : SatisfiesRule(BuildProps, builds[j].settings) }

\* C8: when the loop handles a library whose listing gave package records, a
\* download is dispatched with the hash of the first record, in iteration
\* order, that satisfies the matching rule; with no such record (or none at
\* all) nothing is dispatched or requested for the library and the call does
\* not reject because of it
C8_FirstMatchOrOmitted ==
    [][ \A i \in 1..MaxLibs :
            (/\ libState[i].phase = "body"
             /\ ~libState[i].isNull
             /\ libState'[i].phase # "body"
             /\ \A j \in 1..Len(libState[i].builds) : libState[i].builds[j].hasSettings)
            => IF Satisfying(libState[i].builds) = {}
               THEN /\ libState'[i].phase = "nomatch"
                    /\ allDownloads' = allDownloads
                    /\ requests' = requests
                    /\ callValue'.error.lib # i
               ELSE allDownloads' = Append(allDownloads,
                        [lib |-> i,
                         hash |-> libState[i].builds[Lowest(Satisfying(libState[i].builds))].hash,
                         state |-> "url", error |-> "none"])
      ]_vars

\* one library was dispatched with the hash of its second record, another one
\* had no matching record, and the call resolved with the first one's result
C8_Witness ==
    /\ callState = "resolved"
    /\ \E k \in 1..Len(allDownloads) :
        /\ allDownloads[k].hash = HashAt(2)
        /\ callValue.results = <<allDownloads[k].lib>>
    /\ \E i \in 1..MaxLibs : libState[i].phase = "nomatch"

\* C10: without a host, or with onlyonstaticliblink set and binary false,
\* setup resolves with an empty sequence, having issued no request, dispatched
\* no download and written nothing
C10_SetupNoop ==
    (pc # "idle" /\ (~host \/ (onlyonstaticliblink /\ ~binary))) =>
        /\ callState = "resolved"
        /\ callValue.results = <<>>
        /\ requests = {}
        /\ allDownloads = <<>>
        /\ dirWrites = {}

\* setup returned for a static-link-only configuration and a non-binary
\* request, although a library with packaged headers was requested
C10_Witness ==
    /\ pc = "done"
    /\ host
    /\ onlyonstaticliblink
    /\ ~binary
    /\ \E i \in 1..Len(libraryDetails) : libraryDetails[i].packagedheaders
    /\ callState = "resolved"

\* ---- claims about downloadAndExtractPackage (ExtractSpec)
\* p is root or below it, segment by segment
InsideTree(p, root) == Len(p) >= Len(root) /\ SubSeq(p, 1, Len(root)) = root

\* the destination of a logged entry
Destination(e) == getDestinationFilepath(extractAllToRoot, DownloadPath, e.name, LibId)

\* C1 (as claimed): no file is created, and no directory made, outside the
\* tree rooted at the destination directory, in flatten and non-flatten mode
C1_NothingOutsideRoot ==
    \A p \in files \cup dirs : InsideTree(p, DownloadPath)

\* C9: an entry the path check rejects creates no file, has next called for it
\* (so the entries after it are emitted), and never rejects the extraction;
\* an extraction that finished without a failure resolved with every entry
\* skipped or written
C9_SkipOnlyThatEntry ==
    /\ \A n \in 1..Len(log) : log[n].outcome = "skipped" => nextCalls >= n
    /\ files \subseteq { Destination(log[n]) :
                            n \in { m \in 1..Len(log) : log[m].outcome # "skipped" } }
    /\ xPromise = "rejected" => xError \in {"mkdirp", "stream", "pipeline"}
    /\ (ePc = "finished" /\ xPromise # "rejected") =>
        /\ xPromise = "resolved"
        /\ \A n \in 1..Len(log) : log[n].outcome \in {"skipped", "written"}

\* "../../a" was skipped, the entry after it was written, nothing else was,
\* and the extraction resolved
C9_Witness ==
    /\ xPromise = "resolved"
    /\ Len(log) = 2
    /\ log[1].name = <<"..", "..", "a">>
    /\ log[1].outcome = "skipped"
    /\ log[2].outcome = "written"
    /\ files = {Destination(log[2])}

\* the listing queries issued for library i
QueriesOf(i) == { q \in 1..Len(listingQueries) : listingQueries[q].lib = i }

\* C11: once setup has gone past its early returns, a library that neither has
\* packaged headers nor binaries to link gets no listing, no URL resolution and
\* no archive fetch and is in no result; every other library gets exactly one
\* listing query, under lookupname and lookupversion where they are present and
\* under the library id and version where they are not
C11_OnlyWantedLibrariesQueried ==
    (pc # "idle" /\ ~SetupReturnsEmpty(host, onlyonstaticliblink, binary)) =>
        \A i \in 1..Len(libraryDetails) :
            LET d == libraryDetails[i]
            IN  IF d.packagedheaders \/ HasBinariesToLink(d)
                THEN /\ Cardinality(QueriesOf(i)) = 1
                     /\ \A q \in QueriesOf(i) :
                            /\ listingQueries[q].name =
                                   (IF d.lookupname = "" THEN LibIdOf(i) ELSE d.lookupname)
                            /\ listingQueries[q].version =
                                   (IF d.lookupversion = "" THEN d.version ELSE d.lookupversion)
                     /\ Cardinality({ r \in requests : r[1] = "search" /\ r[2] = i }) = 1
                ELSE /\ QueriesOf(i) = {}
                     /\ { r \in requests : r[2] = i } = {}
                     /\ TasksOf(i) = {}
                     /\ i \notin dirWrites
                     /\ ~InResults(i)

\* library 1 has both overrides and was listed under them and downloaded,
\* library 2 is wanted for nothing and the finished call never touched it
C11_Witness ==
    /\ pc = "joined"
    /\ callState = "resolved"
    /\ libraryDetails[1].lookupname = "altname"
    /\ libraryDetails[1].binariesToLink
    /\ listingQueries = <<[lib |-> 1, name |-> "altname", version |-> "altver"]>>
    /\ InResults(1)
    /\ ~libraryDetails[2].packagedheaders
    /\ ~libraryDetails[2].binariesToLink
    /\ { r \in requests : r[2] = 2 } = {}

\* C12 (as claimed): without extractAllToRoot, every file the archive of
\* library LibId creates lies in the tree rooted at dirPath/LibId, the
\* directory no other library's archive writes to
C12_UnderOwnLibraryDirectory ==
    ~extractAllToRoot => \A p \in files : InsideTree(p, DownloadPath \o <<LibId>>)

\* C13 (as claimed): once a failure has occurred while fetching and
\* extracting (a failed read of the body, a failed write, a failed mkdirp, a
\* stream or pipeline error), the returned promise is rejected
C13_EveryFailureRejects ==
    (ePc = "stalled" \/ lostErrors # {}) => xPromise = "rejected"

\* the entries whose handling ended with a call of next
Completed == { n \in 1..Len(log) : log[n].outcome \in {"skipped", "written"} }

\* C14 (as claimed): every entry whose handling is over has had next called
\* for it, and next was called no more often than entries were emitted
C14_NextOncePerEntry ==
    /\ nextCalls <= Len(log)
    /\ \A n \in 1..Len(log) : log[n].outcome # "handling" => nextCalls >= n

\* C14 (amended): an entry is emitted only after every entry before it was
\* completed or skipped; next has been called once for each completed or
\* skipped entry and for no other; while an entry is handled next has not
\* been called for it; an entry whose handling failed is the last one emitted
C14_OneAtATimeNextAtMostOnce ==
    /\ \A n \in 1..(Len(log) - 1) : n \in Completed
    /\ nextCalls = Cardinality(Completed)
    /\ ePc \in {"mkdirp", "piping"} =>
        /\ Len(log) > 0
        /\ log[Len(log)].outcome = "handling"
    /\ \A n \in 1..Len(log) : log[n].outcome = "failed" => (n = Len(log) /\ ePc = "stalled")

\* the first entry was written and next called for it, the second one's mkdirp
\* failed: the promise is rejected and next was never called for the second
C14_Witness ==
    /\ Len(log) = 2
    /\ log[1].outcome = "written"
    /\ log[1].size = 1
    /\ log[2].outcome = "failed"
    /\ xError = "mkdirp"
    /\ nextCalls = 1

\* the entries after n that made or truncated the file entry n made
LaterWriters(n) ==
    { m \in (n + 1)..Len(log) : log[m].filestream # "none"
                                  /\ Destination(log[m]) = Destination(log[n]) }

\* C17: a zero-length entry that passed the path check (and whose directory
\* was made) is complete as soon as its file is created: the file exists at
\* the entry's destination and holds no bytes unless a later entry wrote to
\* the same path, next has been called for it, and it is never piped
C17_ZeroLengthEntry ==
    /\ \A n \in 1..Len(log) :
        (log[n].size = 0 /\ log[n].outcome \notin {"skipped", "handling", "failed"}) =>
            /\ log[n].outcome = "written"
            /\ nextCalls >= n
            /\ Destination(log[n]) \in files
            /\ LaterWriters(n) = {} => Destination(log[n]) \notin nonEmpty
    /\ \A n \in 1..Len(log) :
        (log[n].size = 0 /\ log[n].filestream # "none") => log[n].outcome # "handling"
    /\ ePc = "piping" => log[Len(log)].size # 0

\* an empty entry then a non-empty one at another path: both written, the
\* first file empty, the second not, and the extraction resolved
C17_Witness ==
    /\ xPromise = "resolved"
    /\ Len(log) = 2
    /\ log[1].size = 0
    /\ log[1].outcome = "written"
    /\ log[2].size = 1
    /\ log[2].outcome = "written"
    /\ Destination(log[1]) # Destination(log[2])
    /\ Destination(log[1]) \in files \ nonEmpty
    /\ Destination(log[2]) \in nonEmpty

\* C18 (as claimed): when the promise has resolved, the write stream of every
\* entry that was not skipped has finished
C18_ResolvedMeansWritten ==
    xPromise = "resolved" =>
        \A n \in 1..Len(log) : log[n].outcome # "skipped" => log[n].filestream = "finished"

\* the libraries download() retained
Retained == { allLibraryBuilds[n] : n \in 1..Len(allLibraryBuilds) }

\* the listing of library j gave a build that matches, and the loop has not
\* reached j yet
MatchedUnhandled(j) ==
    /\ pc = "loop"
    /\ libState[j].phase = "body"
    /\ Truthy(libState[j])
    /\ FindMatchingHash(BuildProps, libState[j].builds) \notin {TypeError, Undefined, ""}

\* C15 (as claimed): every retained library's listing is issued before the
\* loop awaits any, and a library whose listing gave a match is never held
\* back by the unanswered listing of another library
C15_NoWaitForOtherListings ==
    /\ pc = "loop" => \A i \in Retained : <<"search", i>> \in requests
    /\ \A j \in Retained : MatchedUnhandled(j) =>
            \A i \in Retained : i < j => libState[i].phase # "pending"

\* C15 (amended): every retained library's listing is issued before the loop
\* awaits any; the loop, standing at a library, waits for that library's
\* listing and for nothing else (no download or URL resolution, no listing of
\* a later library), so a matched library is held back by the listings of
\* the libraries before it and by those alone
C15_WaitsOnlyForEarlierListings ==
    /\ (pc # "idle" /\ ~SetupReturnsEmpty(host, onlyonstaticliblink, binary)) =>
            \A i \in Retained : <<"search", i>> \in requests /\ libState[i].phase # "none"
    /\ (pc = "loop" /\ libState[allLibraryBuilds[idx]].phase # "pending") => ENABLED LoopStep
    /\ \A j \in Retained : MatchedUnhandled(j) =>
            /\ allLibraryBuilds[idx] <= j
            /\ TasksOf(j) = {}

\* library 2's listing gave a match while library 1's is unanswered: the loop
\* stands at library 1 and nothing has been started for library 2
C15_Witness ==
    /\ MatchedUnhandled(2)
    /\ libState[1].phase = "pending"
    /\ allLibraryBuilds[idx] = 1
    /\ TasksOf(2) = {}

\* the listing query of library i failed: no response, or a status other than 200
ListingFailed(i) == Answered(i) /\ (libState[i].neterr \/ libState[i].status # 200)

\* C16 (as claimed): a URL resolution is issued for a library only after its
\* listing settled with a candidate list and a matching hash was selected, an
\* archive fetch only after that library's URL resolution succeeded, and
\* neither is ever started for a library whose listing failed or which has no
\* matching candidate
C16_PhasesOrdered ==
    \A i \in 1..MaxLibs :
        /\ (TasksOf(i) # {} \/ <<"download_urls", i>> \in requests) =>
                /\ libState[i].phase = "matched"
                /\ \A k \in TasksOf(i) : allDownloads[k].hash \notin {TypeError, Undefined, ""}
        /\ <<"archive", i>> \in requests =>
                /\ <<"download_urls", i>> \in requests
                /\ \E k \in TasksOf(i) :
                        \/ allDownloads[k].state \in {"extract", "fulfilled"}
                        \/ allDownloads[k].state = "rejected" /\ allDownloads[k].error = "extract"
        /\ (ListingFailed(i) \/ libState[i].phase \in {"unavailable", "nomatch", "threw"}) =>
                /\ TasksOf(i) = {}
                /\ <<"download_urls", i>> \notin requests
                /\ <<"archive", i>> \notin requests

\* ---- claims about RemoteExecutionEnvironment.execute (ExecSpec)
\* the requests whose result the waiter of call c has received
Heard(c) == { inbox[c][n] : n \in 1..Len(inbox[c]) }

\* C19: a call's request is in the queue only after its waiter subscribed to
\* the guid; the call awaits the result only after its push has completed; a
\* result published for the request while the waiter is not closed reaches the
\* waiter; a call whose subscribe failed has pushed no request
C19_SubscribedBeforePush ==
    \A c \in Calls :
        /\ c \in execQueue => subscribed[c]
        /\ (execPc[c] \in {"data", "close", "returned"} \/ result[c] # 0) =>
                (c \in execQueue /\ subscribed[c])
        /\ (c \in published /\ closeCalls[c] = 0) => c \in Heard(c)
        /\ raised[c] = "subscribe" => (c \notin execQueue /\ ~subscribed[c])

\* call 1 subscribed, pushed, received the result published for its request
\* and returned it; call 2 failed to subscribe and pushed nothing
C19_Witness ==
    /\ execPc[1] = "returned"
    /\ 1 \in published
    /\ inbox[1] = <<1>>
    /\ result[1] = 1
    /\ execPc[2] = "threw"
    /\ raised[2] = "subscribe"
    /\ 2 \notin execQueue

\* C20: when a call of execute is over, close has been called on its waiter; a
\* call in which an await failed throws that failure; a call returns, with a
\* result, only if no await failed
C20_ClosedOnEveryPath ==
    \A c \in Calls :
        /\ execPc[c] \in {"returned", "threw"} => closeCalls[c] >= 1
        /\ execPc[c] = "threw" => (raised[c] # "none" /\ thrown[c] = raised[c])
        /\ execPc[c] = "returned" =>
                (raised[c] = "none" /\ thrown[c] = "none" /\ result[c] # 0)
        /\ raised[c] # "none" => execPc[c] = "threw"

\* call 1 returned its result after closing its waiter; call 2 timed out
\* waiting for the result, closed its waiter and threw that failure
C20_Witness ==
    /\ execPc[1] = "returned"
    /\ closeCalls[1] = 1
    /\ result[1] # 0
    /\ execPc[2] = "threw"
    /\ raised[2] = "data"
    /\ thrown[2] = "data"
    /\ closeCalls[2] = 1

====
